---- MODULE Spec2Model ----
(***************************************************************************)
(* Model of sgpt/handlers/handler.py: Handler.get_completion, the          *)
(* streaming completion generator, Handler.handle_function_call, the       *)
(* function-call turn, Handler.handle, and the Cache decorator that wraps  *)
(* get_completion.                                                         *)
(*                                                                         *)
(* get_completion is a Python generator: its code runs atomically from one *)
(* suspension point (a yield, or a blocking read of the remote channel) to *)
(* the next.  Each action below is one such run.  The recursion of         *)
(* get_completion into itself is the sequence `stack` of call frames; the  *)
(* last frame is the running one, the frames below it are suspended in the *)
(* `yield from` of line 92.                                                *)
(***************************************************************************)
EXTENDS Integers, Sequences, FiniteSets, TLC

(***************************************************************************)
(* Bounds of the model.                                                    *)
(***************************************************************************)
MaxChunks == 3      \* chunks the remote service delivers during one exchange
MaxArgs == 2        \* argument fragments accumulated on one channel
MaxTurns == 2       \* function-call terminations during one exchange
CACHE_LENGTH == 1   \* cfg.get("CACHE_LENGTH"), the maximum entry count
MaxStored == 2      \* chunks of one stream when successive exchanges share a store

(***************************************************************************)
(* Values.                                                                 *)
(***************************************************************************)
Absent == "<None>"                      \* Python None

Roles == {"DEFAULT", "SHELL", "CODE", "DESCRIBE_SHELL"}
Prompts == {"p1", "p2"}
FunctionsValues == {Absent, "schemas"}  \* the caller's `functions` argument
Contents == {Absent, "", "a"}           \* delta.content
FunctionNames == {"get_time", "unknown"}
TokOpen == "{\"tz\":"                   \* argument payload fragments
TokClose == "\"UTC\"}"
TokEmpty == "{}"
TokList == "[1]"
ArgTokens == {TokOpen, TokClose, TokEmpty, TokList}
FinishReasons == {Absent, "stop", "function_call"}
Results == {"12:00"}

\* The chunks of the remote channel: chunk.choices[0].delta.content,
\* delta.function_call (has_fc), its name and arguments, and
\* chunk.choices[0].finish_reason.
Chunks ==
    { c \in [content : Contents, has_fc : BOOLEAN,
             fname : FunctionNames \cup {Absent},
             fargs : ArgTokens \cup {Absent},
             finish : FinishReasons] :
        /\ (~c.has_fc => (c.fname = Absent /\ c.fargs = Absent))
        /\ (c.has_fc => c.content = Absent) }

Truthy(v) == v # Absent /\ v # ""

(***************************************************************************)
(* Fragments yielded to the consumer.  They are Python strings; the model  *)
(* keeps the parts of a formatted string apart: a plain text, the trace    *)
(* note of line 53 with the name and the parsed items, the fenced output   *)
(* block of line 57.                                                       *)
(***************************************************************************)
Text(s) == [kind |-> "text", name |-> "", items |-> <<>>, text |-> s]
Trace(n, d) == [kind |-> "call", name |-> n, items |-> d, text |-> ""]
Output(r) == [kind |-> "output", name |-> "", items |-> <<>>, text |-> r]

(***************************************************************************)
(* Messages of the conversation.  function_call is a sequence of length 0  *)
(* (key absent) or 1.                                                      *)
(***************************************************************************)
SystemMessage(r) ==
    [role |-> "system", content |-> r, name |-> "", function_call |-> <<>>]
UserMessage(p) ==
    [role |-> "user", content |-> p, name |-> "", function_call |-> <<>>]
AssistantCall(n, a) ==
    [role |-> "assistant", content |-> "", name |-> "",
     function_call |-> <<[name |-> n, arguments |-> a]>>]
FunctionResult(n, r) ==
    [role |-> "function", content |-> r, name |-> n, function_call |-> <<>>]

\* Handler.make_messages: the role's system instruction, then the prompt.
make_messages(r, p) == <<SystemMessage(r), UserMessage(p)>>

VARIABLES
    role,             \* self.role.name
    showOutput,       \* cfg.get("SHOW_FUNCTIONS_OUTPUT") == "true"
    status,           \* "idle", "running", "done", "failed", "abandoned"
    failure,          \* what made the exchange fail
    callerCaching,    \* the caching argument of handle()
    callerFunctions,  \* the functions argument of handle()
    messages,         \* the conversation, one list mutated in place
    stack,            \* the frames of get_completion, innermost last
    atYield,          \* the generator is suspended at a yield
    delivered,        \* the fragments the consumer has received
    requests,         \* the requests sent to the remote service
    calls,            \* the invocations of registry functions
    terminations,     \* chunks with finish reason "function_call" read
    chunks,           \* chunks read during the exchange
    cache0,           \* the store as it was when handle() ran
    cache             \* the cache store, oldest entry first

vars == <<role, showOutput, status, failure, callerCaching, callerFunctions,
          messages, stack, atYield, delivered, requests, calls, terminations,
          chunks, cache0, cache>>

(***************************************************************************)
(* The cache store of Cache: key -> entry, bounded, oldest evicted first.  *)
(***************************************************************************)
CacheKey(params) == params

HasKey(store, k) == \E i \in DOMAIN store : store[i].key = k

Lookup(store, k) ==
    store[CHOOSE i \in DOMAIN store : store[i].key = k].entry

SelectSeq2(store, k) == SelectSeq(store, LAMBDA e : e.key # k)

\* Handler.cache = Cache(int(cfg.get("CACHE_LENGTH")), ...)
CacheLengthPlusOne == CACHE_LENGTH + 1
HandlerCacheLength == CACHE_LENGTH

Evict(store) ==
    IF Len(store) > HandlerCacheLength
    THEN SubSeq(store, Len(store) - HandlerCacheLength + 1, Len(store))
    ELSE store

Persist(store, k, e) ==
    Evict(Append(SelectSeq2(store, k), [key |-> k, entry |-> e]))

\* A completed stream is memoized unless it went through a function call.
HasFunctionTurn(acc) == \E i \in DOMAIN acc : acc[i].kind = "call"

(***************************************************************************)
(* get_completion, lines 69-74: the role policy on `functions`.            *)
(***************************************************************************)
EffectiveFunctionsShellOnly(r, f) ==
    IF r = "SHELL" THEN Absent ELSE f

EffectiveFunctions(r, f) ==
    IF r = "SHELL" \/ r = "CODE" \/ r = "DESCRIBE_SHELL" THEN Absent ELSE f

\* line 93: the continuation is called with caching=False
ContinuationCachingOn == TRUE
ContinuationCaching == FALSE

\* handle(), lines 111-118: the caller's caching flag is passed on
HandleCachingOff(c) == FALSE
HandleCachingOn(c) == TRUE
HandleCaching(c) == c

\* line 97: yield delta.content or ""
ContentOrEmptySkipped(c) == IF Truthy(c) THEN <<Text(c)>> ELSE <<>>
ContentOrEmpty(c) == <<Text(IF Truthy(c) THEN c ELSE "")>>

(***************************************************************************)
(* handle_function_call, line 51-52: json.loads(arguments) and             *)
(* dict_args.items().  The payload is the concatenation of the fragments;  *)
(* it is a JSON object only when the fragments spell one.                  *)
(***************************************************************************)
JsonLoadsLenient(arguments) ==
    IF arguments = <<TokOpen, TokClose>>
    THEN [ok |-> TRUE, items |-> << <<"tz", "UTC">> >>]
    ELSE [ok |-> TRUE, items |-> <<>>]

JsonLoads(arguments) ==
    IF arguments = <<TokEmpty>> THEN [ok |-> TRUE, items |-> <<>>]
    ELSE IF arguments = <<TokOpen, TokClose>>
    THEN [ok |-> TRUE, items |-> << <<"tz", "UTC">> >>]
    ELSE [ok |-> FALSE, items |-> <<>>]

\* get_function of sgpt/function.py: the registered function names.
Registry == {"get_time"}

\* line 55: get_function(name) resolves the name or raises.
ResolvesAlways(n) == TRUE
Resolves(n) == n \in Registry

\* lines 86-87: name = delta.function_call.name
NameKeepFirst(old, new) == IF old = "" THEN new ELSE old
NameUpdate(old, new) == new

\* lines 88-89: arguments += delta.function_call.arguments
ArgumentsOverwrite(old, frag) == <<frag>>
ArgumentsUpdate(old, frag) == Append(old, frag)

\* what the channel of a frame has delivered so far: the first and the last
\* non-empty function name and every non-empty argument fragment, in order
Hear(h, c) ==
    [first |-> IF c.has_fc /\ Truthy(c.fname) /\ h.first = ""
               THEN c.fname ELSE h.first,
     last |-> IF c.has_fc /\ Truthy(c.fname) THEN c.fname ELSE h.last,
     args |-> IF c.has_fc /\ Truthy(c.fargs)
              THEN Append(h.args, c.fargs) ELSE h.args]

\* lines 40 and 58: messages.append(...)
AppendMessageReplaceLast(msgs, m) == [msgs EXCEPT ![Len(msgs)] = m]
AppendMessageInsertFirst(msgs, m) == <<m>> \o msgs
AppendMessage(msgs, m) == Append(msgs, m)

(***************************************************************************)
(* A call of the decorated get_completion: the Cache wrapper, then lines   *)
(* 69-83 up to the opened channel.                                         *)
(***************************************************************************)
Frame(caching, mode, params, fns, pc, replay) ==
    [caching |-> caching, mode |-> mode, params |-> params, acc |-> <<>>,
     replay |-> replay, functions |-> fns, name |-> "", arguments |-> <<>>,
     items |-> <<>>, result |-> "", chan |-> IF pc = "read" THEN "open" ELSE "none",
     heard |-> [first |-> "", last |-> "", args |-> <<>>], nread |-> 0,
     pc |-> pc]

Enter(store, caching, msgs, fns) ==
    LET params == [messages |-> msgs, functions |-> fns]
        k == CacheKey(params)
    IN  IF caching /\ HasKey(store, k)
        THEN Frame(caching, "replay", params, fns, "replay", Lookup(store, k))
        ELSE Frame(caching, IF caching THEN "live" ELSE "bypass", params,
                   EffectiveFunctions(role, fns), "read", <<>>)

\* lines 76-83: the request carries the conversation and `functions`
Request(msgs, f, depth) ==
    [messages |-> msgs, functions |-> f.functions, caching |-> f.caching,
     depth |-> depth]

Top == stack[Len(stack)]

SetTop(stk, f) == [stk EXCEPT ![Len(stk)] = f]

\* a yield: the fragments reach the consumer through every enclosing
\* wrapper, and each recording wrapper accumulates them
Accumulate(stk, frags) ==
    [i \in DOMAIN stk |->
        IF stk[i].mode = "live" THEN [stk[i] EXCEPT !.acc = @ \o frags]
        ELSE stk[i]]

RECURSIVE Complete(_, _)
\* the innermost generator returned: every frame returns in turn (line 95)
\* and every recording wrapper persists what it accumulated
Complete(stk, store) ==
    IF stk = <<>> THEN store
    ELSE LET f == stk[Len(stk)]
             rest == SubSeq(stk, 1, Len(stk) - 1)
         IN  IF f.mode = "live" /\ ~HasFunctionTurn(f.acc)
             THEN Complete(rest, Persist(store, CacheKey(f.params), f.acc))
             ELSE Complete(rest, store)

\* The store is on disk and outlives the process: what earlier runs left.
InitialStores(r) ==
    {<<>>} \cup
    { <<[key |-> CacheKey([messages |-> make_messages(r, "p1"), functions |-> f]),
         entry |-> <<Text("a"), Text("")>>]>> : f \in FunctionsValues }

Init ==
    /\ role \in Roles
    /\ showOutput \in BOOLEAN
    /\ status = "idle"
    /\ failure = "none"
    /\ callerCaching = FALSE
    /\ callerFunctions = Absent
    /\ messages = <<>>
    /\ stack = <<>>
    /\ atYield = FALSE
    /\ delivered = <<>>
    /\ requests = <<>>
    /\ calls = <<>>
    /\ terminations = 0
    /\ chunks = 0
    /\ cache \in InitialStores(role)
    /\ cache0 = cache

(***************************************************************************)
(* handle(): builds the conversation, calls get_completion and hands the   *)
(* generator to the printer, which starts pulling.                         *)
(***************************************************************************)
Handle(p, c, f) ==
    /\ status # "running"
    /\ LET msgs == make_messages(role, p)
           fr == Enter(cache, HandleCaching(c), msgs, f)
       IN  /\ messages' = msgs
           /\ stack' = <<fr>>
           /\ requests' = IF fr.pc = "read" THEN <<Request(msgs, fr, 0)>> ELSE <<>>
    /\ callerCaching' = c
    /\ callerFunctions' = f
    /\ status' = "running"
    /\ failure' = "none"
    /\ atYield' = FALSE
    /\ delivered' = <<>>
    /\ calls' = <<>>
    /\ terminations' = 0
    /\ chunks' = 0
    /\ cache0' = cache
    /\ UNCHANGED <<role, showOutput, cache>>

Fail(why) ==
    /\ status' = "failed"
    /\ failure' = why
    /\ stack' = <<>>
    /\ atYield' = FALSE

(***************************************************************************)
(* Lines 76-97: one chunk of the channel.  A chunk whose finish reason is  *)
(* "function_call" enters handle_function_call, which runs lines 40-49 up  *)
(* to its first yield.                                                     *)
(***************************************************************************)
ReadChunk(c) ==
    /\ status = "running"
    /\ stack # <<>>
    /\ Top.pc = "read"
    /\ chunks < MaxChunks
    /\ (c.has_fc /\ Truthy(c.fargs)) => Len(Top.arguments) < MaxArgs
    /\ c.finish = "function_call" => terminations < MaxTurns
    /\ chunks' = chunks + 1
    /\ LET n == IF c.has_fc /\ Truthy(c.fname)
                THEN NameUpdate(Top.name, c.fname) ELSE Top.name
           a == IF c.has_fc /\ Truthy(c.fargs)
                THEN ArgumentsUpdate(Top.arguments, c.fargs) ELSE Top.arguments
           f == [Top EXCEPT !.name = n, !.arguments = a,
                            !.heard = Hear(@, c), !.nread = @ + 1]
       IN  IF c.finish = "function_call"
           THEN LET msgs == AppendMessage(messages, AssistantCall(n, a))
                    sep == IF msgs # <<>> /\ msgs[Len(msgs)].role = "assistant"
                           THEN <<Text("\n")>> ELSE <<>>
                IN  /\ messages' = msgs
                    /\ terminations' = terminations + 1
                    /\ stack' = Accumulate(SetTop(stack, [f EXCEPT !.pc = "parse"]), sep)
                    /\ delivered' = delivered \o sep
                    /\ atYield' = (sep # <<>>)
           ELSE /\ stack' = Accumulate(SetTop(stack, f), ContentOrEmpty(c.content))
                /\ delivered' = delivered \o ContentOrEmpty(c.content)
                /\ atYield' = TRUE
                /\ UNCHANGED <<messages, terminations>>
    /\ UNCHANGED <<role, showOutput, status, failure, callerCaching,
                   callerFunctions, requests, calls, cache0, cache>>

(***************************************************************************)
(* Lines 92-94: the continuation call on the extended conversation.  The   *)
(* calling frame stays suspended in its `yield from`, its channel neither  *)
(* exhausted nor closed.                                                   *)
(***************************************************************************)
Recurse(stk, store, msgs) ==
    LET caller == stk[Len(stk)]
        fr == Enter(store, ContinuationCaching, msgs, caller.functions)
    IN  Append(SetTop(stk, [caller EXCEPT !.pc = "wait"]), fr)

RecurseRequests(stk, msgs) ==
    LET fr == stk[Len(stk)]
    IN  IF fr.pc = "read"
        THEN Append(requests, Request(msgs, fr, Len(stk) - 1))
        ELSE requests

(***************************************************************************)
(* handle_function_call, lines 51-53: parse the payload, yield the trace.  *)
(***************************************************************************)
ParseArguments ==
    /\ status = "running"
    /\ stack # <<>>
    /\ Top.pc = "parse"
    /\ LET parsed == JsonLoads(Top.arguments)
       IN  IF ~parsed.ok
           THEN /\ Fail("arguments")
                /\ UNCHANGED delivered
           ELSE LET frag == <<Trace(Top.name, parsed.items)>>
                IN  /\ stack' = Accumulate(
                            SetTop(stack, [Top EXCEPT !.items = parsed.items,
                                                      !.pc = "call"]), frag)
                    /\ delivered' = delivered \o frag
                    /\ atYield' = TRUE
                    /\ UNCHANGED <<status, failure>>
    /\ UNCHANGED <<role, showOutput, callerCaching, callerFunctions, messages,
                   requests, calls, terminations, chunks, cache0, cache>>

(***************************************************************************)
(* handle_function_call, lines 55-58, then lines 92-94.  The registry      *)
(* function returns a text or raises.  With SHOW_FUNCTIONS_OUTPUT the      *)
(* generator suspends at line 57 before the result is appended.            *)
(***************************************************************************)
CallFunction(outcome) ==
    /\ status = "running"
    /\ stack # <<>>
    /\ Top.pc = "call"
    /\ IF ~Resolves(Top.name)
       THEN /\ Fail("unknown_function")
            /\ UNCHANGED <<messages, delivered, requests, calls>>
       ELSE /\ calls' = Append(calls, [name |-> Top.name, items |-> Top.items])
            /\ IF outcome = "raise"
               THEN /\ Fail("function_error")
                    /\ UNCHANGED <<messages, delivered, requests>>
               ELSE IF showOutput
               THEN /\ stack' = Accumulate(
                            SetTop(stack, [Top EXCEPT !.result = outcome,
                                                      !.pc = "result"]),
                            <<Output(outcome)>>)
                    /\ delivered' = Append(delivered, Output(outcome))
                    /\ atYield' = TRUE
                    /\ UNCHANGED <<status, failure, messages, requests>>
               ELSE LET msgs == AppendMessage(messages, FunctionResult(Top.name, outcome))
                        stk == Recurse(stack, cache, msgs)
                    IN  /\ messages' = msgs
                        /\ stack' = stk
                        /\ requests' = RecurseRequests(stk, msgs)
                        /\ atYield' = FALSE
                        /\ UNCHANGED <<status, failure, delivered>>
    /\ UNCHANGED <<role, showOutput, callerCaching, callerFunctions,
                   terminations, chunks, cache0, cache>>

\* line 58 after the yield of line 57, then lines 92-94
AppendResult ==
    /\ status = "running"
    /\ stack # <<>>
    /\ Top.pc = "result"
    /\ LET msgs == AppendMessage(messages, FunctionResult(Top.name, Top.result))
           stk == Recurse(stack, cache, msgs)
       IN  /\ messages' = msgs
           /\ stack' = stk
           /\ requests' = RecurseRequests(stk, msgs)
    /\ atYield' = FALSE
    /\ UNCHANGED <<role, showOutput, status, failure, callerCaching,
                   callerFunctions, delivered, calls, terminations, chunks,
                   cache0, cache>>

(***************************************************************************)
(* The channel is exhausted: the for loop of line 76 ends, the generator   *)
(* returns, and so does every frame suspended at line 92 (line 95).        *)
(***************************************************************************)
\* line 95: the frames that stay on the stack once the innermost generator
\* has returned.  Every caller returns right after its `yield from`, without
\* going back to its for loop.
ReturnAfterContinuationMissing(stk) ==
    IF Len(stk) > 1
    THEN SetTop(SubSeq(stk, 1, Len(stk) - 1),
                [stk[Len(stk) - 1] EXCEPT !.pc = "read"])
    ELSE <<>>
ReturnAfterContinuation(stk) == <<>>

Finish ==
    /\ LET rest == ReturnAfterContinuation(stack)
       IN  /\ cache' = Complete(SubSeq(stack, Len(rest) + 1, Len(stack)), cache)
           /\ stack' = rest
           /\ status' = IF rest = <<>> THEN "done" ELSE status
    /\ atYield' = FALSE
    /\ UNCHANGED <<role, showOutput, failure, callerCaching, callerFunctions,
                   messages, delivered, requests, calls, terminations, chunks,
                   cache0>>

ChannelEnd ==
    /\ status = "running"
    /\ stack # <<>>
    /\ Top.pc = "read"
    /\ Finish

(***************************************************************************)
(* The channel fails (timeout, connection error): nothing in lines 76-97   *)
(* catches the exception, it propagates to the consumer.                   *)
(***************************************************************************)
TransportErrorSwallowed == FALSE
TransportErrorPropagates == TRUE

TransportError ==
    /\ status = "running"
    /\ stack # <<>>
    /\ Top.pc = "read"
    /\ IF TransportErrorPropagates
       THEN /\ Fail("transport")
            /\ UNCHANGED <<role, showOutput, callerCaching, callerFunctions,
                           messages, delivered, requests, calls, terminations,
                           chunks, cache0, cache>>
       ELSE Finish

\* the consumer stops pulling: the suspended generator is closed
Abandon ==
    /\ status = "running"
    /\ atYield
    /\ status' = "abandoned"
    /\ stack' = <<>>
    /\ atYield' = FALSE
    /\ UNCHANGED <<role, showOutput, failure, callerCaching, callerFunctions,
                   messages, delivered, requests, calls, terminations, chunks,
                   cache0, cache>>

(***************************************************************************)
(* Replay of a stored entry by the Cache wrapper.                          *)
(***************************************************************************)
ReplayNext ==
    /\ status = "running"
    /\ stack # <<>>
    /\ Top.pc = "replay"
    /\ Top.replay # <<>>
    /\ stack' = Accumulate(SetTop(stack, [Top EXCEPT !.replay = Tail(@)]),
                           <<Head(Top.replay)>>)
    /\ delivered' = Append(delivered, Head(Top.replay))
    /\ atYield' = TRUE
    /\ UNCHANGED <<role, showOutput, status, failure, callerCaching,
                   callerFunctions, messages, requests, calls, terminations,
                   chunks, cache0, cache>>

ReplayEnd ==
    /\ status = "running"
    /\ stack # <<>>
    /\ Top.pc = "replay"
    /\ Top.replay = <<>>
    /\ Finish

\* One run of the program: one Handler, one handle() call.
Run(c, f) ==
    /\ status = "idle"
    /\ Handle("p1", c, f)

Next ==
    \/ \E c \in BOOLEAN, f \in FunctionsValues : Run(c, f)
    \/ \E c \in Chunks : ReadChunk(c)
    \/ ParseArguments
    \/ \E o \in Results \cup {"raise"} : CallFunction(o)
    \/ AppendResult
    \/ ChannelEnd
    \/ TransportError
    \/ Abandon
    \/ ReplayNext
    \/ ReplayEnd

Spec == Init /\ [][Next]_vars

(***************************************************************************)
(* Successive handle() calls on one store, the service answering with      *)
(* plain content only.                                                     *)
(***************************************************************************)
PlainChunks == {c \in Chunks : ~c.has_fc /\ c.finish # "function_call"}

InitStore ==
    /\ role = "DEFAULT"
    /\ showOutput = FALSE
    /\ status = "idle"
    /\ failure = "none"
    /\ callerCaching = FALSE
    /\ callerFunctions = Absent
    /\ messages = <<>>
    /\ stack = <<>>
    /\ atYield = FALSE
    /\ delivered = <<>>
    /\ requests = <<>>
    /\ calls = <<>>
    /\ terminations = 0
    /\ chunks = 0
    /\ cache0 = <<>>
    /\ cache = <<>>

NextStore ==
    \/ \E p \in Prompts, c \in BOOLEAN, f \in FunctionsValues : Handle(p, c, f)
    \/ \E c \in PlainChunks : chunks < MaxStored /\ ReadChunk(c)
    \/ ChannelEnd
    \/ TransportError
    \/ Abandon
    \/ ReplayNext
    \/ ReplayEnd

SpecStore == InitStore /\ [][NextStore]_vars

(***************************************************************************)
(* One handle() call without caching whose channel never carries the       *)
(* "function_call" finish reason.                                          *)
(***************************************************************************)
StreamChunks == {c \in Chunks : c.finish # "function_call"}

InitStream ==
    /\ role \in Roles
    /\ showOutput = FALSE
    /\ status = "idle"
    /\ failure = "none"
    /\ callerCaching = FALSE
    /\ callerFunctions = Absent
    /\ messages = <<>>
    /\ stack = <<>>
    /\ atYield = FALSE
    /\ delivered = <<>>
    /\ requests = <<>>
    /\ calls = <<>>
    /\ terminations = 0
    /\ chunks = 0
    /\ cache0 = <<>>
    /\ cache = <<>>

NextStream ==
    \/ \E f \in FunctionsValues : Run(FALSE, f)
    \/ \E c \in StreamChunks : ReadChunk(c)
    \/ ChannelEnd
    \/ TransportError
    \/ Abandon

SpecStream == InitStream /\ [][NextStream]_vars

(***************************************************************************)
(* One handle() call whose consumer drains the generator and whose         *)
(* channels end normally.  The printer pulls until the generator returns   *)
(* or raises, so every run of the generator that is ready is eventually    *)
(* taken; the service eventually ends a channel it no longer feeds.  The    *)
(* role decides nothing but the `functions` of the requests (lines 70-74), *)
(* so one role stands for all.                                             *)
(***************************************************************************)
InitLive ==
    /\ role = "DEFAULT"
    /\ showOutput \in BOOLEAN
    /\ status = "idle"
    /\ failure = "none"
    /\ callerCaching = FALSE
    /\ callerFunctions = Absent
    /\ messages = <<>>
    /\ stack = <<>>
    /\ atYield = FALSE
    /\ delivered = <<>>
    /\ requests = <<>>
    /\ calls = <<>>
    /\ terminations = 0
    /\ chunks = 0
    /\ cache \in InitialStores(role)
    /\ cache0 = cache

NextLive ==
    \/ \E c \in BOOLEAN, f \in FunctionsValues : Run(c, f)
    \/ \E c \in Chunks : ReadChunk(c)
    \/ ParseArguments
    \/ \E o \in Results \cup {"raise"} : CallFunction(o)
    \/ AppendResult
    \/ ChannelEnd
    \/ ReplayNext
    \/ ReplayEnd

SpecLive ==
    /\ InitLive
    /\ [][NextLive]_vars
    /\ WF_vars(ParseArguments)
    /\ WF_vars(\E o \in Results \cup {"raise"} : CallFunction(o))
    /\ WF_vars(AppendResult)
    /\ WF_vars(ChannelEnd)
    /\ WF_vars(ReplayNext)
    /\ WF_vars(ReplayEnd)

(***************************************************************************)
(* Properties.                                                             *)
(***************************************************************************)
ToolFreeRoles == {"SHELL", "CODE", "DESCRIBE_SHELL"}

IsCall(m) == m.role = "assistant" /\ m.function_call # <<>>

FunctionMessages == {i \in DOMAIN messages : messages[i].role = "function"}

\* the request parameters handle() passed, and whether the store held them
TopKey ==
    CacheKey([messages |-> SubSeq(messages, 1, 2), functions |-> callerFunctions])

Hit == HasKey(cache0, TopKey)

Min(a, b) == IF a < b THEN a ELSE b

\* C1 as stated: every "function_call" termination that has been handled is
\* followed by one continuation request.
C1_EveryTerminationContinues ==
    (status \in {"done", "failed"} /\ requests # <<>>)
        => Len(requests) = terminations + 1

\* C1, amended: every function-call turn that completes (its function-result
\* record is appended) is followed by exactly one continuation call; that
\* call has caching disabled and its conversation is the conversation of the
\* preceding request plus the assistant function-call record and then the
\* function-result record.  A termination whose turn fails or is abandoned
\* has no continuation.
C1_ContinuationAfterCompletedTurn ==
    /\ requests # <<>> => Len(requests) = Cardinality(FunctionMessages) + 1
    /\ Len(requests) <= terminations + 1
    /\ (status = "done" /\ requests # <<>>) => Len(requests) = terminations + 1
    /\ \A i \in DOMAIN requests :
        i > 1 =>
            LET prev == requests[i - 1].messages
                cur == requests[i].messages
            IN  /\ ~requests[i].caching
                /\ requests[i].depth = i - 1
                /\ Len(cur) = Len(prev) + 2
                /\ SubSeq(cur, 1, Len(prev)) = prev
                /\ IsCall(cur[Len(prev) + 1])
                /\ cur[Len(prev) + 2].role = "function"
                /\ cur[Len(prev) + 2].name
                       = cur[Len(prev) + 1].function_call[1].name

C1_Witness ==
    /\ status = "done"
    /\ Len(requests) = 3
    /\ Len(messages) = 6

\* C2: a call with caching disabled, top-level or continuation, leaves the
\* store as it was and contacts the remote service, also when the store
\* holds an entry for its key.
C2_BypassLeavesStore ==
    [][ /\ ~callerCaching' => cache' = cache
        /\ Len(stack) > 1 => cache' = cache
        /\ (status' = "running" /\ ~callerCaching') => requests' # <<>>
        /\ (Len(stack) >= 1 /\ Len(stack') > Len(stack))
              => Len(requests') = Len(requests) + 1 ]_vars

C2_Witness ==
    /\ status = "done"
    /\ ~callerCaching
    /\ Hit
    /\ Len(requests) = 2
    /\ cache = cache0

\* C3: a drained cache-enabled stream without function call stores exactly
\* the fragments it delivered; a stored entry is never altered; a later
\* cache-enabled request with the same parameters delivers exactly the
\* stored fragments and sends no request.
C3_ReplayIsCapture ==
    [][ /\ (status' = "done" /\ callerCaching' /\ ~Hit')
              => (HasKey(cache', TopKey') /\ Lookup(cache', TopKey') = delivered')
        /\ (status' = "done" /\ callerCaching' /\ Hit')
              => (requests' = <<>> /\ delivered' = Lookup(cache0', TopKey'))
        /\ \A i \in DOMAIN cache : \A j \in DOMAIN cache' :
              cache[i].key = cache'[j].key => cache[i].entry = cache'[j].entry
      ]_vars

C3_Witness ==
    /\ status = "done"
    /\ callerCaching
    /\ Hit
    /\ requests = <<>>
    /\ delivered = <<Text("a"), Text("")>>

\* C4: a step in which the channel fails or the consumer stops pulling
\* changes neither the store nor the fragments already delivered, and an
\* exchange that ended that way leaves the store as handle() found it.
C4_AbortWritesNothing ==
    [][ /\ (TransportError \/ Abandon)
              => (cache' = cache /\ delivered' = delivered)
        /\ status' \in {"failed", "abandoned"} => cache' = cache0' ]_vars

C4_Witness ==
    /\ status = "failed"
    /\ failure = "transport"
    /\ callerCaching
    /\ ~Hit
    /\ Len(delivered) = 2
    /\ cache = cache0

\* C5: an exchange that went through a function-call termination writes no
\* cache entry: the store stays as handle() found it, and after a
\* cache-enabled exchange it holds no entry for the request, so that an
\* identical request is a miss again.
C5_FunctionTurnNotCached ==
    terminations > 0 =>
        (cache = cache0 /\ (callerCaching => ~HasKey(cache, TopKey)))

C5_Witness ==
    /\ status = "done"
    /\ callerCaching
    /\ terminations = 2
    /\ Len(requests) = 3

C7_FunctionsPerRole ==
    \A i \in DOMAIN requests :
        requests[i].functions =
            IF role \in ToolFreeRoles THEN Absent ELSE callerFunctions

C7_Witness ==
    /\ role = "DESCRIBE_SHELL"
    /\ callerFunctions = "schemas"
    /\ Len(requests) = 2

\* C8: under a role that forbids tool use a "function_call" termination is
\* suppressed: no function is invoked, no message is appended, no
\* continuation request is sent.
C8_ToolFreeRoleSuppressesCall ==
    role \in ToolFreeRoles =>
        (calls = <<>> /\ Len(messages) <= 2 /\ Len(requests) <= 1)

WellFormedPayloads == {<<TokEmpty>>, <<TokOpen, TokClose>>}

\* C9: once the assistant record of a turn holds a payload that is no JSON
\* object, the turn goes no further: the record stays the last message, no
\* function is invoked for it, no continuation request is sent, the store is
\* as handle() found it, and the exchange does not complete; when it has
\* stopped by itself it has failed on the payload.
C9_MalformedPayloadFails ==
    \A i \in DOMAIN messages :
        (IsCall(messages[i])
            /\ messages[i].function_call[1].arguments \notin WellFormedPayloads)
        => /\ i = Len(messages)
           /\ Len(calls) = terminations - 1
           /\ Len(requests) = terminations
           /\ cache = cache0
           /\ status \in {"running", "failed", "abandoned"}
           /\ (status = "failed" => failure = "arguments")
           /\ (status = "running" => delivered[Len(delivered)] = Text("\n"))

C9_Witness ==
    /\ status = "failed"
    /\ failure = "arguments"
    /\ callerCaching
    /\ terminations = 2
    /\ Len(calls) = 1
    /\ messages[Len(messages)].function_call[1].arguments = <<TokClose, TokOpen>>

\* C10: once the assistant record of a turn names a function the registry
\* does not hold, the turn goes no further: the record stays the last
\* message, no function-result record follows it, no function is invoked, no
\* continuation request is sent, the store is as handle() found it, and the
\* exchange does not complete.
C10_UnknownFunctionFails ==
    \A i \in DOMAIN messages :
        (IsCall(messages[i]) /\ messages[i].function_call[1].name # "get_time")
        => /\ i = Len(messages)
           /\ Len(calls) = terminations - 1
           /\ Len(requests) = terminations
           /\ cache = cache0
           /\ status \in {"running", "failed", "abandoned"}
           /\ (status = "failed" => failure \in {"arguments", "unknown_function"})

C10_Witness ==
    /\ status = "failed"
    /\ failure = "unknown_function"
    /\ callerCaching
    /\ messages[Len(messages)].function_call[1].name = "unknown"
    /\ messages[Len(messages)].function_call[1].arguments = <<TokOpen, TokClose>>

(***************************************************************************)
(* Properties of the function-call turn.  The turn of frame i appends its  *)
(* assistant record as message 2i+1 and its function record as 2i+2.       *)
(***************************************************************************)
TurnFrames ==
    {i \in DOMAIN stack : stack[i].pc \in {"parse", "call", "result", "wait"}}

CallRecord(i) == messages[2 * i + 1].function_call[1]

\* C11 as stated: the name recorded for the turn is the first non-empty name
\* the channel delivered.
C11_FirstNameWins ==
    \A i \in TurnFrames : CallRecord(i).name = stack[i].heard.first

\* C11, amended: the name recorded in the assistant record, looked up in the
\* registry and recorded in the function record is the last non-empty name
\* the channel delivered before the termination.
C11_LastNameWins ==
    \A i \in TurnFrames :
        /\ CallRecord(i).name = stack[i].heard.last
        /\ Len(calls) >= i => calls[i].name = stack[i].heard.last
        /\ stack[i].pc = "wait" => messages[2 * i + 2].name = stack[i].heard.last

C11_Witness ==
    /\ stack # <<>>
    /\ stack[1].pc = "wait"
    /\ stack[1].heard.first = "unknown"
    /\ stack[1].heard.last = "get_time"
    /\ messages[4].name = "get_time"

C13_OneFragmentPerChunk ==
    [][ /\ \A c \in StreamChunks :
              ReadChunk(c) =>
                  /\ delivered' = Append(delivered,
                        Text(IF c.content \in {Absent, ""} THEN "" ELSE c.content))
                  /\ status' = "running"
        /\ ChannelEnd => (delivered' = delivered /\ status' = "done")
        /\ (status' = "done" /\ terminations' = 0 /\ requests' # <<>>)
              => Len(delivered') = chunks' ]_vars

C13_Witness ==
    /\ status = "done"
    /\ terminations = 0
    /\ requests # <<>>
    /\ delivered = <<Text(""), Text("a"), Text("")>>

\* the frames whose remote channel has been opened and neither exhausted nor
\* closed
OpenChannels == {i \in DOMAIN stack : stack[i].chan = "open"}

\* C14: at every point of an exchange at most one remote channel is open:
\* the channel of the calling frame is no longer open when the channel of
\* its continuation is.
C14_OneOpenChannel ==
    Cardinality(OpenChannels) <= 1

\* the fragments a frame has yielded itself: one per chunk read before the
\* termination, then the separator, the trace and the output of its turn
Yielded(f) ==
    IF f.pc = "read" THEN f.nread
    ELSE IF f.pc = "parse" THEN f.nread
    ELSE IF f.pc = "call" THEN f.nread + 1
    ELSE IF f.pc = "result" THEN f.nread + 2
    ELSE f.nread + 1 + (IF showOutput THEN 1 ELSE 0)

RECURSIVE YieldedUpTo(_)
YieldedUpTo(i) == IF i = 0 THEN 0 ELSE YieldedUpTo(i - 1) + Yielded(stack[i])

\* C15: a frame that has read the "function_call" termination reads no
\* further chunk of its channel; what the consumer receives from then on is
\* the fragments of the turn (separator, trace, output) and then the
\* fragments of the continuation, in that order, and nothing else; the frame
\* ends exactly when its continuation ends.
C15_NoReadAfterTermination ==
    [][ /\ \A i \in TurnFrames :
              i \in DOMAIN stack' =>
                  /\ stack'[i].nread = stack[i].nread
                  /\ stack'[i].heard = stack[i].heard
                  /\ stack'[i].pc # "read"
        /\ \A i \in TurnFrames :
              stack[i].pc = "wait" =>
                  /\ i < Len(stack)
                  /\ delivered[YieldedUpTo(i - 1) + stack[i].nread] = Text("\n")
                  /\ delivered[YieldedUpTo(i - 1) + stack[i].nread + 1].kind = "call"
                  /\ showOutput =>
                       delivered[YieldedUpTo(i)].kind = "output"
        /\ (stack # <<>> /\ stack[1].pc # "replay")
              => Len(delivered) = YieldedUpTo(Len(stack))
        /\ Len(stack') < Len(stack) => (stack' = <<>> /\ status' # "running")
        /\ (ChannelEnd /\ Len(stack) > 1)
              => (status' = "done" /\ delivered' = delivered) ]_vars

C15_Witness ==
    /\ Len(stack) = 2
    /\ stack[1].pc = "wait"
    /\ stack[1].nread = 1
    /\ stack[2].pc = "read"
    /\ stack[2].nread = 2
    /\ chunks = MaxChunks

\* the positions of the trace fragments among the delivered fragments
Traces == {j \in DOMAIN delivered : delivered[j].kind = "call"}

CallRecords == {i \in DOMAIN messages : IsCall(messages[i])}

\* the position of the t-th trace fragment
TraceAt(t) ==
    CHOOSE j \in Traces : Cardinality({k \in Traces : k <= j}) = t

\* C16 as stated: the trace fragment of a turn is emitted before the payload
\* of the turn is parsed, so a turn that fails on its payload has emitted it.
C16_TraceBeforeParse ==
    (status = "failed" /\ failure = "arguments")
        => Cardinality(Traces) = terminations

\* C16, amended: in a turn the assistant record is appended first, then the
\* payload is parsed, then the trace is emitted, then the function is
\* invoked, then the function record is appended, then the continuation
\* request is opened.  Each event of a turn has all the earlier ones behind
\* it; a turn that fails on its payload has emitted no trace.
C16_TurnOrder ==
    /\ Cardinality(CallRecords) = terminations
    /\ Cardinality(Traces) <= terminations
    /\ Len(calls) <= Cardinality(Traces)
    /\ Cardinality(FunctionMessages) <= Len(calls)
    /\ requests # <<>> => Len(requests) = Cardinality(FunctionMessages) + 1
    /\ (status = "failed" /\ failure = "arguments")
          => Cardinality(Traces) = terminations - 1
    /\ \A t \in 1..Cardinality(Traces) :
          /\ IsCall(messages[2 * t + 1])
          /\ CallRecord(t).arguments \in WellFormedPayloads
          /\ delivered[TraceAt(t)] =
                 Trace(CallRecord(t).name, JsonLoads(CallRecord(t).arguments).items)
    /\ \A t \in DOMAIN calls :
          /\ IsCall(messages[2 * t + 1])
          /\ calls[t] = [name |-> CallRecord(t).name,
                         items |-> delivered[TraceAt(t)].items]
    /\ \A i \in FunctionMessages :
          /\ i % 2 = 0
          /\ i \div 2 - 1 \in DOMAIN calls
          /\ IsCall(messages[i - 1])
          /\ messages[i].name = calls[i \div 2 - 1].name
    /\ \A i \in DOMAIN requests :
          i > 1 => /\ Len(requests[i].messages) = 2 * i
                   /\ requests[i].messages[2 * i].role = "function"
                   /\ requests[i].messages = SubSeq(messages, 1, 2 * i)

C16_Witness ==
    /\ status = "failed"
    /\ failure = "arguments"
    /\ showOutput
    /\ terminations = 2
    /\ Cardinality(Traces) = 1
    /\ Len(calls) = 1
    /\ Len(requests) = 2
    /\ Len(messages) = 5

IsPrefix(s, t) == Len(s) <= Len(t) /\ SubSeq(t, 1, Len(s)) = s

\* C17: during an exchange every step leaves the messages already in the
\* conversation in place and unchanged and can only add messages after them;
\* the conversation of every request sent, the first one included, is a
\* prefix of the current conversation; a step that handles no
\* "function_call" termination and completes no turn leaves the
\* conversation as it is, so a stream without such a termination ends with
\* the conversation it was given.
C17_AppendOnly ==
    [][ /\ status = "running" => IsPrefix(messages, messages')
        /\ \A i \in DOMAIN requests' : IsPrefix(requests'[i].messages, messages')
        /\ (status = "running" /\ terminations' = terminations
                /\ Len(requests') = Len(requests))
              => messages' = messages
        /\ (status' = "done" /\ terminations' = 0 /\ requests' # <<>>)
              => messages' = requests'[1].messages ]_vars

C17_Witness ==
    /\ status = "done"
    /\ showOutput
    /\ Len(messages) = 6
    /\ Len(requests) = 3
    /\ requests[1].messages = SubSeq(messages, 1, 2)
    /\ requests[2].messages = SubSeq(messages, 1, 4)

TurnFailures == {"arguments", "unknown_function", "function_error"}

\* C18: when the consumer keeps pulling and every channel ends, a running
\* exchange eventually stops, completed unless one of its turns failed; a
\* completed exchange that handled k "function_call" terminations has sent
\* exactly k + 1 requests, the i-th from recursion depth i - 1, the last one
\* from depth k, and has appended exactly 2k messages to the conversation
\* of the first request.
C18_TerminatesAfterKTurns ==
    /\ [](( status = "done" /\ requests # <<>> ) =>
            /\ Len(requests) = terminations + 1
            /\ \A i \in DOMAIN requests : requests[i].depth = i - 1
            /\ Len(messages) = Len(requests[1].messages) + 2 * terminations)
    /\ (status = "running") ~>
          (status = "done" \/ (status = "failed" /\ failure \in TurnFailures))

C18_Witness ==
    /\ status = "done"
    /\ terminations = MaxTurns
    /\ Len(requests) = MaxTurns + 1
    /\ requests[Len(requests)].depth = MaxTurns
    /\ Len(messages) = 2 + 2 * MaxTurns

Separators == {j \in DOMAIN delivered : delivered[j] = Text("\n")}

\* the message that preceded the assistant record of the t-th turn
PreviousMessage(t) == messages[2 * t]

\* C19: the separator of a turn follows the trace fragment of that turn, and
\* the trace of the t-th turn is followed by a separator if and only if the
\* message before the assistant record of the turn has role "assistant".
C19_SeparatorIffPreviousAssistant ==
    /\ \A j \in Separators :
          /\ j - 1 \in Traces
          /\ PreviousMessage(Cardinality({k \in Traces : k < j})).role = "assistant"
    /\ \A t \in 1..Cardinality(Traces) :
          (PreviousMessage(t).role = "assistant" /\ TraceAt(t) < Len(delivered))
              => TraceAt(t) + 1 \in Separators

\* the innermost frame is inside handle_function_call
InTurn == stack # <<>> /\ Top.pc \in {"parse", "call", "result"}

\* C20: a step that stops the exchange inside a function-call turn (the
\* payload does not parse, the name does not resolve, the function raises,
\* or the consumer stops pulling) leaves the conversation as the turn made
\* it: the conversation the frame was called with, then the assistant record
\* of the turn as last message, and no function record for it.
C20_StoppedTurnLeavesRecord ==
    [][ (status = "running" /\ InTurn /\ status' \in {"failed", "abandoned"})
          => /\ messages' = messages
             /\ Len(messages') = Len(Top.params.messages) + 1
             /\ SubSeq(messages', 1, Len(messages') - 1) = Top.params.messages
             /\ messages'[Len(messages')] = AssistantCall(Top.name, Top.arguments)
             /\ Cardinality(FunctionMessages') = terminations' - 1
             /\ (status' = "failed" => failure' \in TurnFailures) ]_vars

C20_Witness ==
    /\ status = "abandoned"
    /\ showOutput
    /\ terminations = 2
    /\ Len(messages) = 5
    /\ IsCall(messages[5])
    /\ delivered[Len(delivered)].kind = "output"
====
